---- MODULE Spec2Model ----
(***************************************************************************)
(* A model of the cw-quadratic-funding contract (src/src/contract.rs,      *)
(* src/src/state.rs): the storage of one funding round, the three execute  *)
(* handlers, and the matching engine calculate_clr they hand the votes to. *)
(*                                                                         *)
(* The handlers are modelled as the source runs them on one storage: a     *)
(* handler that returns Err keeps the writes it made before the return.    *)
(* Titles, descriptions and metadata of a proposal influence nothing and   *)
(* are left out of the Proposal record.                                    *)
(***************************************************************************)
EXTENDS Integers, Sequences, FiniteSets, TLC

VARIABLES
    config,       \* CONFIG: the round's configuration, written once by instantiate
    PROPOSALS,    \* PROPOSALS: id -> Proposal
    VOTES,        \* VOTES: <<proposal_id, voter>> -> Vote
    seq,          \* the proposal_seq singleton (0 while it was never written)
    block,        \* env.block of the calls: [height, time]
    response,     \* what the last call of the current block returned
    distributed,  \* history: some TriggerDistribution has returned Ok
    clr_in,       \* the engine's input, when it is exercised alone
    clr_out       \* the engine's output for clr_in

vars == <<config, PROPOSALS, VOTES, seq, block, response, distributed, clr_in, clr_out>>

(***************************************************************************)
(* Bounds of the model.                                                    *)
(***************************************************************************)
\* proposal ids handed out by nextval
MaxProposals == 2
\* block heights 1..MaxHeight
MaxHeight == 4
\* a proposal's collected_funds
MaxCollected == 10
\* grants and contributions per grant handed to the engine alone
MaxGrants == 2
MaxFunds == 2
\* stand-in for u128::MAX, the largest representable amount
UintMax == 1000000000

(***************************************************************************)
(* Addresses, coins and the inputs of the calls.                           *)
(***************************************************************************)
None == [some |-> FALSE]
Some(v) == [some |-> TRUE, v |-> v]

Denom == "ucosm"
Admin == "admin"
LeftoverAddr == "leftover"

\* the addresses that send calls, in ascending byte order
AddrOrder ==
    <<"address1", "address2", "address3", "address4", "address5", "address6",
      "address7", "address8", "address9", "admin", "alice">>

\* info.sender of the calls of a round
Senders == {"admin", "alice"}

InvalidAddr == ""
FundAddrs == {"fund_address"}
Amounts == {5}

coin(amount, denom) == [denom |-> denom, amount |-> amount]

\* info.funds of a vote: no coin, one coin of the budget's denom, or another denom
FundsInputs ==
    {<<>>} \cup {<<coin(a, Denom)>> : a \in Amounts} \cup {<<coin(5, "uatom")>>}

AtHeight(h) == [kind |-> "AtHeight", v |-> h]
AtTime(t) == [kind |-> "AtTime", v |-> t]
Never == [kind |-> "Never", v |-> 0]

BlockAt(h) == [height |-> h, time |-> 10 * h]

\* Expiration::is_expired(&env.block)
is_expired(e, blk) ==
    CASE e.kind = "AtHeight" -> blk.height >= e.v
      [] e.kind = "AtTime" -> blk.time >= e.v
      [] OTHER -> FALSE

\* api.addr_validate
addr_validate(a) == a # InvalidAddr

\* the check with its test inverted
whitelist_rejects_inverted(wl, sender) == wl.some /\ sender \in wl.v

\* a whitelist check: if let Some(wl) = whitelist { if !wl.contains(sender) .. }
whitelist_rejects(wl, sender) == wl.some /\ sender \notin wl.v

\* helper::extract_budget_coin: exactly one coin, of the expected denom
extract_budget_coin(funds, denom) ==
    IF Len(funds) # 1 THEN [ok |-> FALSE, err |-> "WrongCoinSent"]
    ELSE IF funds[1].denom # denom THEN [ok |-> FALSE, err |-> "WrongFundCoin"]
    ELSE [ok |-> TRUE, coin |-> funds[1]]

(***************************************************************************)
(* The matching engine (matching::calculate_clr and what it is built       *)
(* from).  Amounts are unsigned integers of at most UintMax; Overflow      *)
(* stands for a sum or square that left that range.                        *)
(***************************************************************************)
Overflow == -1

checked_add(a, b) ==
    IF a = Overflow \/ b = Overflow THEN Overflow
    ELSE IF a > UintMax - b THEN Overflow
    ELSE a + b

checked_square(a) ==
    IF a = Overflow THEN Overflow
    ELSE IF a > 0 /\ a > UintMax \div a THEN Overflow
    ELSE a * a

RECURSIVE isqrt_search(_, _, _)
isqrt_search(n, lo, hi) ==
    IF lo >= hi THEN lo
    ELSE LET mid == (lo + hi + 1) \div 2
         IN  IF mid * mid <= n THEN isqrt_search(n, mid, hi)
             ELSE isqrt_search(n, lo, mid - 1)

\* Integer Square Root: the largest r with r * r <= n, by binary search below a
\* bound whose square is representable
isqrt(n) == isqrt_search(n, 0, IF n < 46340 THEN n ELSE 46340)

RECURSIVE sum_seq(_)
sum_seq(s) == IF s = <<>> THEN 0 ELSE checked_add(sum_seq(Tail(s)), Head(s))

raw_score_squares_summed(funds) ==
    sum_seq([j \in 1..Len(funds) |-> checked_square(isqrt(funds[j]))])

\* Liberal Radicalism Scorer: (sum of the square roots of the contributions)^2
raw_score(funds) ==
    checked_square(sum_seq([j \in 1..Len(funds) |-> isqrt(funds[j])]))

\* quotient and remainder by c of the sum of two numbers given as such
add_qr(x, y, c) ==
    [q |-> x.q + y.q + ((x.r + y.r) \div c), r |-> (x.r + y.r) % c]

\* shift and add over the bits of b: p holds a * 2^i and acc the sum of the
\* a * 2^i of the bits consumed, both as quotient and remainder by c; a
\* quotient above UintMax is an overflow
RECURSIVE mul_div_bits(_, _, _, _)
mul_div_bits(b, c, p, acc) ==
    IF b = 0 THEN acc
    ELSE LET acc2 == IF b % 2 = 1 THEN add_qr(acc, p, c) ELSE acc
             p2 == IF b > 1 THEN add_qr(p, p, c) ELSE p
         IN  IF acc2.q > UintMax \/ p2.q > UintMax
             THEN [q |-> Overflow, r |-> 0]
             ELSE mul_div_bits(b \div 2, c, p2, acc2)

\* floor(a * b / c) for c > 0, the product widened: no intermediate value
\* exceeds 2 * UintMax + 1
mul_div(a, b, c) ==
    LET lo == IF a < b THEN a ELSE b
        hi == IF a < b THEN b ELSE a
    IN  mul_div_bits(lo, c, [q |-> hi \div c, r |-> hi % c], [q |-> 0, r |-> 0])

\* Capital-Constrained Scaler: one grant's share of the budget
constrain_by_budget(raw, total, budget) ==
    IF total = 0 THEN 0 ELSE mul_div(budget, raw, total).q

\* calculate_clr(grants, budget): the matched amounts, in the grants' order, and
\* the leftover
calculate_clr(grants, budget) ==
    LET n == Len(grants)
        raws == [i \in 1..n |-> raw_score(grants[i].funds)]
        total == sum_seq(raws)
        failed == total = Overflow \/ \E i \in 1..n : raws[i] = Overflow
        matched == [i \in 1..n |->
                      IF budget.some THEN constrain_by_budget(raws[i], total, budget.v)
                      ELSE raws[i]]
    IN  IF failed \/ (budget.some /\ sum_seq(matched) > budget.v)
        THEN [ok |-> FALSE, err |-> "Overflow"]
        ELSE [ok |-> TRUE,
              distr_funds |-> [i \in 1..n |->
                  [addr |-> grants[i].addr,
                   grant |-> matched[i],
                   collected_vote_funds |-> grants[i].collected_vote_funds]],
              leftover |-> IF budget.some THEN budget.v - sum_seq(matched) ELSE 0]

(***************************************************************************)
(* The contract: instantiate, and the three execute handlers.              *)
(***************************************************************************)
Whitelists == {None, Some({"alice"})}
VotingPeriods == {AtHeight(3), AtTime(25)}
ProposalPeriods == {AtHeight(2), Never}
Budgets == {7}

\* instantiate: CONFIG as saved from the InstantiateMsg and the funds sent with it
Config(cwl, vwl, vp, pp, funds) ==
    [admin |-> Admin,
     leftover_addr |-> LeftoverAddr,
     create_proposal_whitelist |-> cwl,
     vote_proposal_whitelist |-> vwl,
     voting_period |-> vp,
     proposal_period |-> pp,
     budget |-> extract_budget_coin(funds, Denom).coin,
     algorithm |-> "CapitalConstrainedLiberalRadicalism"]

NoResponse == [op |-> "none", sender |-> "", proposal_id |-> 0, result |-> "none", msgs |-> <<>>]

Response(op, sender, proposal_id, result, msgs) ==
    [op |-> op, sender |-> sender, proposal_id |-> proposal_id, result |-> result, msgs |-> msgs]

NoClr == [grants |-> <<>>, budget |-> 0]
NoResult == [ok |-> FALSE, err |-> "none"]

Init ==
    /\ \E cwl \in Whitelists, vwl \in Whitelists, vp \in VotingPeriods,
          pp \in ProposalPeriods, b \in Budgets :
           config = Config(cwl, vwl, vp, pp, <<coin(b, Denom)>>)
    /\ PROPOSALS = <<>>
    /\ VOTES = <<>>
    /\ seq = 0
    /\ block = BlockAt(1)
    /\ response = NoResponse
    /\ distributed = FALSE
    /\ clr_in = NoClr
    /\ clr_out = NoResult

\* the chain moves to the next block; height and time only grow
NextBlock ==
    /\ block.height < MaxHeight
    /\ block' = BlockAt(block.height + 1)
    /\ response' = NoResponse
    /\ UNCHANGED <<config, PROPOSALS, VOTES, seq, distributed, clr_in, clr_out>>

\* a handler that returned Err before its first write
Rejected(op, sender, proposal_id, err) ==
    /\ response' = Response(op, sender, proposal_id, err, <<>>)
    /\ UNCHANGED <<config, PROPOSALS, VOTES, seq, block, distributed, clr_in, clr_out>>

\* an expiration that holds only after its point, not at it
expired_after(e, blk) ==
    CASE e.kind = "AtHeight" -> blk.height > e.v
      [] e.kind = "AtTime" -> blk.time > e.v
      [] OTHER -> FALSE

proposal_check_expired_after == expired_after(config.proposal_period, block)

\* check proposal expiration
proposal_check_expired == is_expired(config.proposal_period, block)

Proposal(id, fund_address) ==
    [id |-> id, fund_address |-> fund_address, collected_funds |-> 0]

execute_create_proposal(sender, fund_address) ==
    IF whitelist_rejects(config.create_proposal_whitelist, sender)
    THEN Rejected("CreateProposal", sender, 0, "Unauthorized")
    ELSE IF proposal_check_expired
    THEN Rejected("CreateProposal", sender, 0, "ProposalPeriodExpired")
    ELSE \* nextval writes the incremented sequence before the address is validated
         /\ seq' = seq + 1
         /\ IF addr_validate(fund_address)
            THEN /\ PROPOSALS' = PROPOSALS @@ (seq' :> Proposal(seq', fund_address))
                 /\ response' = Response("CreateProposal", sender, seq', "Ok", <<>>)
            ELSE /\ PROPOSALS' = PROPOSALS
                 /\ response' = Response("CreateProposal", sender, 0, "InvalidAddress", <<>>)
         /\ UNCHANGED <<config, VOTES, block, distributed, clr_in, clr_out>>

vote_check_expired_after == expired_after(config.voting_period, block)

vote_check_never_expired == FALSE

\* check voting expiration, in execute_vote_proposal
vote_check_expired == is_expired(config.voting_period, block)

already_voted_unchecked(proposal_id, sender) == FALSE

\* check sender did not voted on proposal
already_voted(proposal_id, sender) == <<proposal_id, sender>> \in DOMAIN VOTES

Vote(proposal_id, voter, fund) ==
    [proposal_id |-> proposal_id, voter |-> voter, fund |-> fund]

execute_vote_proposal(sender, proposal_id, funds) ==
    LET fund == extract_budget_coin(funds, config.budget.denom)
    IN  IF whitelist_rejects(config.vote_proposal_whitelist, sender)
        THEN Rejected("VoteProposal", sender, proposal_id, "Unauthorized")
        ELSE IF vote_check_expired
        THEN Rejected("VoteProposal", sender, proposal_id, "VotingPeriodExpired")
        ELSE IF ~fund.ok
        THEN Rejected("VoteProposal", sender, proposal_id, fund.err)
        ELSE IF proposal_id \notin DOMAIN PROPOSALS
        THEN Rejected("VoteProposal", sender, proposal_id, "ProposalNotFound")
        ELSE \* PROPOSALS.update saves the raised collected_funds before the
             \* sender's earlier vote is looked up
             /\ PROPOSALS' = [PROPOSALS EXCEPT
                    ![proposal_id].collected_funds = @ + fund.coin.amount]
             /\ IF already_voted(proposal_id, sender)
                THEN /\ VOTES' = VOTES
                     /\ response' = Response("VoteProposal", sender, proposal_id,
                                             "AddressAlreadyVotedProject", <<>>)
                ELSE /\ VOTES' = VOTES @@
                         (<<proposal_id, sender>> :> Vote(proposal_id, sender, fund.coin))
                     /\ response' = Response("VoteProposal", sender, proposal_id, "Ok", <<>>)
             /\ UNCHANGED <<config, seq, block, distributed, clr_in, clr_out>>

\* the ids of a set, ascending: PROPOSALS.range(.., Order::Ascending)
RECURSIVE ascending(_)
ascending(S) ==
    IF S = {} THEN <<>>
    ELSE LET m == CHOOSE x \in S : \A y \in S : x <= y
         IN  <<m>> \o ascending(S \ {m})

votes_of_unprefixed(id) ==
    LET voters == SelectSeq(AddrOrder, LAMBDA a : \E k \in DOMAIN VOTES : k[2] = a)
    IN  [j \in 1..Len(voters) |->
            VOTES[CHOOSE k \in DOMAIN VOTES : k[2] = voters[j]].fund.amount]

\* the votes of one proposal, ascending by voter: VOTES.prefix(id).range(..)
votes_of(id) ==
    LET voters == SelectSeq(AddrOrder, LAMBDA a : <<id, a>> \in DOMAIN VOTES)
    IN  [j \in 1..Len(voters) |-> VOTES[<<id, voters[j]>>].fund.amount]

RawGrant(p) ==
    [addr |-> p.fund_address, funds |-> votes_of(p.id),
     collected_vote_funds |-> p.collected_funds]

\* collect proposals under grants
collect_grants ==
    LET ids == ascending(DOMAIN PROPOSALS)
    IN  [i \in 1..Len(ids) |-> RawGrant(PROPOSALS[ids[i]])]

distribute_unconstrained(grants, budget) == calculate_clr(grants, None)

distribute_budget_plus_one(grants, budget) == calculate_clr(grants, Some(budget + 1))

\* match config.algorithm { CapitalConstrainedLiberalRadicalism => calculate_clr(..) }
distribute(grants, budget) == calculate_clr(grants, Some(budget))

BankSend(to_address, amount) == [to_address |-> to_address, amount |-> amount]

bank_msgs_collected_only(distr_funds, leftover) ==
    [i \in 1..Len(distr_funds) |->
        BankSend(distr_funds[i].addr, distr_funds[i].collected_vote_funds)]
    \o <<BankSend(config.leftover_addr, leftover)>>

\* the sends without the collected funds
bank_msgs_grant_only(distr_funds, leftover) ==
    [i \in 1..Len(distr_funds) |-> BankSend(distr_funds[i].addr, distr_funds[i].grant)]
    \o <<BankSend(config.leftover_addr, leftover)>>

\* the leftover send left out when there is nothing left over
bank_msgs_skip_zero_leftover(distr_funds, leftover) ==
    [i \in 1..Len(distr_funds) |->
        BankSend(distr_funds[i].addr,
                 distr_funds[i].grant + distr_funds[i].collected_vote_funds)]
    \o (IF leftover = 0 THEN <<>> ELSE <<BankSend(config.leftover_addr, leftover)>>)

\* one send per distributed fund, then the leftover send
bank_msgs(distr_funds, leftover) ==
    [i \in 1..Len(distr_funds) |->
        BankSend(distr_funds[i].addr,
                 distr_funds[i].grant + distr_funds[i].collected_vote_funds)]
    \o <<BankSend(config.leftover_addr, leftover)>>

\* f.grant + f.collected_vote_funds is a plain u128 addition: whether one of
\* them leaves the range
sends_overflow(distr_funds) ==
    \E i \in 1..Len(distr_funds) :
        distr_funds[i].grant > UintMax - distr_funds[i].collected_vote_funds

\* the sends of a build whose additions wrap
wrapped(msgs) ==
    [i \in 1..Len(msgs) |-> BankSend(msgs[i].to_address, msgs[i].amount % (UintMax + 1))]

\* the error of the engine dropped, an empty distribution sent instead
respond_distribution_error_dropped(sender, r) ==
    response' = Response("TriggerDistribution", sender, 0, "Ok",
                         IF r.ok THEN bank_msgs(r.distr_funds, r.leftover)
                         ELSE bank_msgs(<<>>, 0))

\* what the handler returns for the engine's result r: its error, or the sends.
\* An addition that overflows panics or wraps, as the build has it.
respond_distribution(sender, r) ==
    IF ~r.ok
    THEN response' = Response("TriggerDistribution", sender, 0, r.err, <<>>)
    ELSE IF sends_overflow(r.distr_funds)
    THEN \E wraps \in BOOLEAN :
            response' =
                IF wraps
                THEN Response("TriggerDistribution", sender, 0, "Ok",
                              wrapped(bank_msgs(r.distr_funds, r.leftover)))
                ELSE Response("TriggerDistribution", sender, 0, "Panic", <<>>)
    ELSE response' = Response("TriggerDistribution", sender, 0, "Ok",
                              bank_msgs(r.distr_funds, r.leftover))

trigger_check_always_expired == TRUE

\* check voting period expiration, in execute_trigger_distribution
trigger_check_expired == is_expired(config.voting_period, block)

not_admin_unchecked(sender) == FALSE

\* only admin can trigger distribution
not_admin(sender) == sender # config.admin

execute_trigger_distribution(sender) ==
    IF not_admin(sender)
    THEN Rejected("TriggerDistribution", sender, 0, "Unauthorized")
    ELSE IF ~trigger_check_expired
    THEN Rejected("TriggerDistribution", sender, 0, "VotingPeriodNotExpired")
    ELSE /\ respond_distribution(sender, distribute(collect_grants, config.budget.amount))
         /\ distributed' = (distributed \/ response'.result = "Ok")
         /\ UNCHANGED <<config, PROPOSALS, VOTES, seq, block, clr_in, clr_out>>

\* the calls of a round, while the ids stay within MaxProposals and the
\* collected funds within MaxCollected
CreateProposal ==
    \E sender \in Senders, fund_address \in FundAddrs \cup {InvalidAddr} :
        /\ execute_create_proposal(sender, fund_address)
        /\ seq' <= MaxProposals

VoteProposal ==
    \E sender \in Senders, proposal_id \in 1..MaxProposals, funds \in FundsInputs :
        /\ execute_vote_proposal(sender, proposal_id, funds)
        /\ \A id \in DOMAIN PROPOSALS' : PROPOSALS'[id].collected_funds <= MaxCollected

TriggerDistribution ==
    \E sender \in Senders : execute_trigger_distribution(sender)

Next == NextBlock \/ CreateProposal \/ VoteProposal \/ TriggerDistribution

Spec == Init /\ [][Next]_vars

(***************************************************************************)
(* The round when every CreateProposal and VoteProposal is accepted: the   *)
(* calls that return Err are left out (TriggerDistribution may still fail, *)
(* and then writes nothing).                                               *)
(***************************************************************************)
AcceptedCreateProposal == CreateProposal /\ response'.result = "Ok"

AcceptedVoteProposal == VoteProposal /\ response'.result = "Ok"

NextAccepted ==
    NextBlock \/ AcceptedCreateProposal \/ AcceptedVoteProposal \/ TriggerDistribution

SpecAccepted == Init /\ [][NextAccepted]_vars

(***************************************************************************)
(* The round of the test trigger_distribution: four proposals, nine votes  *)
(* by nine addresses, budget 550000; the calls in any order.               *)
(***************************************************************************)
RefBudget == 550000

RefFundAddrs == <<"fund_address1", "fund_address2", "fund_address3", "fund_address4">>

RefVote(sender, proposal_id, amount) ==
    [sender |-> sender, proposal_id |-> proposal_id, amount |-> amount]

RefVotes ==
    <<RefVote("address1", 1, 1200), RefVote("address2", 1, 44999),
      RefVote("address3", 1, 33), RefVote("address4", 2, 30000),
      RefVote("address5", 2, 58999), RefVote("address6", 3, 230000),
      RefVote("address7", 3, 100), RefVote("address8", 4, 100000),
      RefVote("address9", 4, 5)>>

InitReference ==
    /\ config = [Config(None, None, AtHeight(3), AtHeight(2), <<coin(RefBudget, Denom)>>)
                    EXCEPT !.leftover_addr = "addr"]
    /\ PROPOSALS = <<>>
    /\ VOTES = <<>>
    /\ seq = 0
    /\ block = BlockAt(1)
    /\ response = NoResponse
    /\ distributed = FALSE
    /\ clr_in = NoClr
    /\ clr_out = NoResult

RefCreateProposal ==
    /\ seq < Len(RefFundAddrs)
    /\ execute_create_proposal(Admin, RefFundAddrs[seq + 1])

\* each vote of the round is cast once
RefVoteProposal ==
    \E k \in 1..Len(RefVotes) :
        /\ <<RefVotes[k].proposal_id, RefVotes[k].sender>> \notin DOMAIN VOTES
        /\ execute_vote_proposal(RefVotes[k].sender, RefVotes[k].proposal_id,
                                 <<coin(RefVotes[k].amount, Denom)>>)

RefTriggerDistribution == execute_trigger_distribution(Admin)

NextReference ==
    NextBlock \/ RefCreateProposal \/ RefVoteProposal \/ RefTriggerDistribution

SpecReference == InitReference /\ [][NextReference]_vars

(***************************************************************************)
(* The engine alone, as execute_trigger_distribution calls it, on every    *)
(* list of at most MaxGrants grants of at most MaxFunds contributions. The *)
(* collected funds of a grant are the stored collected_funds: the sum of   *)
(* the votes plus the funds of the repeated votes that were rejected after *)
(* PROPOSALS.update had saved them.                                        *)
(***************************************************************************)
ClrAmounts == {1, 5}
ClrBudgets == {0, 1, 7, 10}

\* the funds of rejected repeated votes that a proposal's collected_funds holds
ClrRepeats == {0, 5, 10}

SeqsUpTo(S, n) == UNION {[1..k -> S] : k \in 0..n}

ClrGrant(funds, collected) ==
    [addr |-> "fund_address", funds |-> funds, collected_vote_funds |-> collected]

\* a vote is repeated only where a vote is stored
ClrGrants ==
    {ClrGrant(x[1], sum_seq(x[1]) + x[2]) :
        x \in {y \in SeqsUpTo(ClrAmounts, MaxFunds) \X ClrRepeats :
                  y[1] # <<>> \/ y[2] = 0}}

ClrInputs ==
    {[grants |-> gs, budget |-> b] :
        gs \in SeqsUpTo(ClrGrants, MaxGrants), b \in ClrBudgets}

InitClr ==
    /\ config = Config(None, None, Never, Never, <<coin(0, Denom)>>)
    /\ PROPOSALS = <<>>
    /\ VOTES = <<>>
    /\ seq = 0
    /\ block = BlockAt(1)
    /\ response = NoResponse
    /\ distributed = FALSE
    /\ clr_in \in ClrInputs
    /\ clr_out = NoResult

ClrApply ==
    /\ clr_out = NoResult
    /\ clr_out' = distribute(clr_in.grants, clr_in.budget)
    /\ respond_distribution(config.admin, clr_out')
    /\ UNCHANGED <<config, PROPOSALS, VOTES, seq, block, distributed, clr_in>>

NextClr == ClrApply

SpecClr == InitClr /\ [][NextClr]_vars

(***************************************************************************)
(* The engine at the edge of the integer range: contributions whose roots, *)
(* squared or summed over the grants, exceed UintMax. The collected funds   *)
(* of a grant are the sum of its votes or, after rejected repeated votes,   *)
(* more, up to UintMax: the addition of execute_vote_proposal keeps them in *)
(* the range.                                                               *)
(***************************************************************************)
OverflowAmounts == {5, (UintMax \div 5) * 2, (UintMax \div 10) * 9}
OverflowBudgets == {7, 1000}

\* the funds of rejected repeated votes: none, 5, or what fills the range
OverflowRepeats == {"none", "some", "most"}

OverflowGrants ==
    {ClrGrant(x[1], CASE x[2] = "none" -> sum_seq(x[1])
                      [] x[2] = "some" -> sum_seq(x[1]) + 5
                      [] x[2] = "most" -> UintMax) :
        x \in {y \in SeqsUpTo(OverflowAmounts, MaxFunds) \X OverflowRepeats :
                  /\ sum_seq(y[1]) # Overflow
                  /\ y[1] # <<>> \/ y[2] = "none"}}

OverflowInputs ==
    {[grants |-> gs, budget |-> b] :
        gs \in SeqsUpTo(OverflowGrants, MaxGrants), b \in OverflowBudgets}

InitOverflow ==
    /\ config = Config(None, None, Never, Never, <<coin(0, Denom)>>)
    /\ PROPOSALS = <<>>
    /\ VOTES = <<>>
    /\ seq = 0
    /\ block = BlockAt(1)
    /\ response = NoResponse
    /\ distributed = FALSE
    /\ clr_in \in OverflowInputs
    /\ clr_out = NoResult

SpecOverflow == InitOverflow /\ [][NextClr]_vars

(***************************************************************************)
(* The scorer alone: a contribution list, scored as it is and as the one    *)
(* contribution of the same total.                                          *)
(***************************************************************************)
MaxAmount == 9
MaxSplit == 3

ScoreInputs ==
    {[grants |-> <<ClrGrant(funds, sum_seq(funds))>>, budget |-> 0] :
        funds \in SeqsUpTo(0..MaxAmount, MaxSplit)}

InitScore ==
    /\ config = Config(None, None, Never, Never, <<coin(0, Denom)>>)
    /\ PROPOSALS = <<>>
    /\ VOTES = <<>>
    /\ seq = 0
    /\ block = BlockAt(1)
    /\ response = NoResponse
    /\ distributed = FALSE
    /\ clr_in \in ScoreInputs
    /\ clr_out = NoResult

ScoreApply ==
    /\ clr_out = NoResult
    /\ clr_out' = [ok |-> TRUE,
                   split |-> raw_score(clr_in.grants[1].funds),
                   single |-> raw_score(<<sum_seq(clr_in.grants[1].funds)>>)]
    /\ UNCHANGED <<config, PROPOSALS, VOTES, seq, block, response, distributed, clr_in>>

NextScore == ScoreApply

SpecScore == InitScore /\ [][NextScore]_vars

(***************************************************************************)
(* Properties.                                                             *)
(***************************************************************************)
SuccessfulTrigger ==
    response.op = "TriggerDistribution" /\ response.result = "Ok"

RECURSIVE SumAmounts(_)
SumAmounts(msgs) ==
    IF msgs = <<>> THEN 0 ELSE Head(msgs).amount + SumAmounts(Tail(msgs))

RECURSIVE SumVoteFunds(_)
SumVoteFunds(keys) ==
    IF keys = {} THEN 0
    ELSE LET k == CHOOSE x \in keys : TRUE
         IN  VOTES[k].fund.amount + SumVoteFunds(keys \ {k})

RECURSIVE SumGrants(_)
SumGrants(fs) == IF fs = <<>> THEN 0 ELSE Head(fs).grant + SumGrants(Tail(fs))

\* the stored proposal ids as the strictly increasing sequence of them
IdsAscending ==
    LET D == DOMAIN PROPOSALS
    IN  CHOOSE ids \in [1..Cardinality(D) -> D] :
            \A i, j \in 1..Cardinality(D) : i < j => ids[i] < ids[j]

VoteCalls == Senders \X (1..MaxProposals) \X FundsInputs
CreateCalls == Senders \X (FundAddrs \cup {InvalidAddr})

\* C1: when every CreateProposal and VoteProposal so far was accepted, a
\* successful TriggerDistribution has emitted one send per proposal plus the
\* leftover send, and their amounts sum to the budget plus the funds of all
\* stored votes: outflow equals inflow.
C1_OutflowEqualsInflow ==
    SuccessfulTrigger =>
        /\ Len(response.msgs) = Cardinality(DOMAIN PROPOSALS) + 1
        /\ SumAmounts(response.msgs)
             = config.budget.amount + SumVoteFunds(DOMAIN VOTES)

C1_Witness ==
    /\ SuccessfulTrigger
    /\ Cardinality(DOMAIN PROPOSALS) = 2
    /\ Cardinality(DOMAIN VOTES) = 3
    /\ response.msgs[3].amount > 0

\* C2: whenever the matching computation succeeds for a budget Some(b), the
\* matched amounts and the leftover sum to b exactly.
C2_Conservation ==
    clr_out.ok => SumGrants(clr_out.distr_funds) + clr_out.leftover = clr_in.budget

C2_Witness ==
    /\ clr_out.ok
    /\ Len(clr_out.distr_funds) = 2
    /\ clr_out.distr_funds[1].grant > 0
    /\ clr_out.distr_funds[2].grant > clr_out.distr_funds[1].grant
    /\ clr_out.leftover > 0

\* C3: once a TriggerDistribution has succeeded, every later
\* TriggerDistribution emits no transfers.
C3_DistributedAtMostOnce ==
    [][(distributed /\ TriggerDistribution) => response'.msgs = <<>>]_vars

\* C4: with budget Some(b), every matched amount is at least 0 and at most b,
\* and the matched amounts sum to at most b.
C4_NeverOverspent ==
    clr_out.ok =>
        /\ \A i \in 1..Len(clr_out.distr_funds) :
              /\ clr_out.distr_funds[i].grant >= 0
              /\ clr_out.distr_funds[i].grant <= clr_in.budget
        /\ SumGrants(clr_out.distr_funds) <= clr_in.budget

C4_Witness ==
    /\ clr_out.ok
    /\ clr_in.budget > 0
    /\ Len(clr_out.distr_funds) = 2
    /\ clr_out.distr_funds[1].grant = clr_in.budget
    /\ clr_out.distr_funds[2].grant = 0

\* C5, as stated: a VoteProposal from a sender that already has a stored vote
\* on that proposal fails with AddressAlreadyVotedProject, in every state.
C5_AlwaysAlreadyVoted ==
    [][\A c \in VoteCalls :
          (<<c[2], c[1]>> \in DOMAIN VOTES /\ execute_vote_proposal(c[1], c[2], c[3]))
              => response'.result = "AddressAlreadyVotedProject"]_vars

\* C5, amended: a VoteProposal from a sender that already has a stored vote on
\* that proposal is never accepted and leaves the votes as they are; it fails
\* with AddressAlreadyVotedProject when the voting period is not expired and
\* the call carries exactly one coin of the budget's denom, and with the error
\* of the earlier check otherwise.
C5_OneVotePerProposal ==
    [][\A c \in VoteCalls :
          (<<c[2], c[1]>> \in DOMAIN VOTES /\ execute_vote_proposal(c[1], c[2], c[3]))
              => /\ response'.result # "Ok"
                 /\ VOTES' = VOTES
                 /\ response'.result = "AddressAlreadyVotedProject"
                      <=> /\ ~is_expired(config.voting_period, block)
                          /\ Len(c[3]) = 1
                          /\ c[3][1].denom = config.budget.denom]_vars

C5_Witness ==
    /\ response.op = "VoteProposal"
    /\ response.result = "AddressAlreadyVotedProject"
    /\ \E p \in DOMAIN PROPOSALS :
          p # response.proposal_id /\ <<p, response.sender>> \in DOMAIN VOTES

\* C6, as stated: a VoteProposal is rejected with VotingPeriodExpired whenever
\* the voting period is expired at the current block.
C6_AlwaysVotingPeriodExpired ==
    [][\A c \in VoteCalls :
          (is_expired(config.voting_period, block) /\ execute_vote_proposal(c[1], c[2], c[3]))
              => response'.result = "VotingPeriodExpired"]_vars

\* C6, amended: whenever the voting period is expired at the current block (for
\* AtHeight(h): at every height >= h), a VoteProposal is rejected, with
\* Unauthorized when the sender fails the whitelist check and with
\* VotingPeriodExpired otherwise, and it records no vote and collects no funds.
C6_NoVoteAfterExpiration ==
    [][\A c \in VoteCalls :
          ((CASE config.voting_period.kind = "AtHeight" ->
                       block.height >= config.voting_period.v
                  [] config.voting_period.kind = "AtTime" ->
                       block.time >= config.voting_period.v
                  [] OTHER -> FALSE)
             /\ execute_vote_proposal(c[1], c[2], c[3]))
              => /\ response'.result =
                       IF /\ config.vote_proposal_whitelist.some
                          /\ c[1] \notin config.vote_proposal_whitelist.v
                       THEN "Unauthorized" ELSE "VotingPeriodExpired"
                 /\ VOTES' = VOTES
                 /\ PROPOSALS' = PROPOSALS]_vars

C6_Witness ==
    /\ response.op = "VoteProposal"
    /\ response.result = "VotingPeriodExpired"
    /\ config.voting_period = AtHeight(block.height)
    /\ response.proposal_id \in DOMAIN PROPOSALS

\* C7, as stated: a CreateProposal is rejected with ProposalPeriodExpired
\* whenever the proposal period is expired, storing no proposal and consuming
\* no id; before expiry, with the sender passing the whitelist check, it
\* succeeds.
C7_ExpiredOrSucceeds ==
    [][\A c \in CreateCalls :
          execute_create_proposal(c[1], c[2]) =>
              IF is_expired(config.proposal_period, block)
              THEN /\ response'.result = "ProposalPeriodExpired"
                   /\ PROPOSALS' = PROPOSALS
                   /\ seq' = seq
              ELSE ~whitelist_rejects(config.create_proposal_whitelist, c[1])
                      => response'.result = "Ok"]_vars

\* C7, amended: a CreateProposal from a sender passing the whitelist check is
\* rejected with ProposalPeriodExpired whenever the proposal period is expired
\* (a sender failing the check gets Unauthorized); the rejected call stores no
\* proposal and consumes no id.  Before expiry, with the sender passing the
\* whitelist check and a valid fund_address, it succeeds and stores the
\* proposal under the next id.
C7_ProposalPeriod ==
    [][\A c \in CreateCalls :
          execute_create_proposal(c[1], c[2]) =>
              LET listed == \/ ~config.create_proposal_whitelist.some
                            \/ c[1] \in config.create_proposal_whitelist.v
                  expired ==
                      CASE config.proposal_period.kind = "AtHeight" ->
                               block.height >= config.proposal_period.v
                        [] config.proposal_period.kind = "AtTime" ->
                               block.time >= config.proposal_period.v
                        [] OTHER -> FALSE
              IN  IF expired
                  THEN /\ response'.result =
                             IF listed THEN "ProposalPeriodExpired" ELSE "Unauthorized"
                       /\ PROPOSALS' = PROPOSALS
                       /\ seq' = seq
                  ELSE (listed /\ c[2] # InvalidAddr)
                          => /\ response'.result = "Ok"
                             /\ seq' = seq + 1
                             /\ DOMAIN PROPOSALS' = DOMAIN PROPOSALS \cup {seq'}]_vars

C7_Witness ==
    /\ response.op = "CreateProposal"
    /\ response.result = "ProposalPeriodExpired"
    /\ config.proposal_period = AtHeight(block.height)
    /\ PROPOSALS # <<>>

\* C8: with a whitelist configured for CreateProposal or VoteProposal, a call
\* from a sender not in it fails with Unauthorized; with the whitelist None no
\* sender gets Unauthorized from these calls.
C8_Whitelist ==
    /\ response.op = "CreateProposal" =>
          (response.result = "Unauthorized"
             <=> /\ config.create_proposal_whitelist.some
                 /\ response.sender \notin config.create_proposal_whitelist.v)
    /\ response.op = "VoteProposal" =>
          (response.result = "Unauthorized"
             <=> /\ config.vote_proposal_whitelist.some
                 /\ response.sender \notin config.vote_proposal_whitelist.v)

C8_Witness ==
    /\ response.op = "VoteProposal"
    /\ response.result = "Unauthorized"
    /\ ~config.create_proposal_whitelist.some
    /\ PROPOSALS # <<>>

\* C9: with block height and time never decreasing, once a TriggerDistribution
\* has succeeded no VoteProposal succeeds, and the votes and every proposal's
\* collected_funds stay as they are.
C9_SnapshotIsFinal ==
    [][distributed =>
          /\ VOTES' = VOTES
          /\ \A id \in DOMAIN PROPOSALS :
                /\ id \in DOMAIN PROPOSALS'
                /\ PROPOSALS'[id].collected_funds = PROPOSALS[id].collected_funds
          /\ VoteProposal => response'.result # "Ok"]_vars

C9_Witness ==
    /\ distributed
    /\ response.op = "VoteProposal"
    /\ response.result = "VotingPeriodExpired"
    /\ VOTES # <<>>

\* C10: a successful TriggerDistribution has emitted exactly one send per
\* stored proposal, in ascending proposal-id order, each to the proposal's
\* fund_address with the amount of the grant at that place, followed by one send
\* to leftover_addr as the last message, whatever the leftover is.
C10_SendsInProposalOrder ==
    SuccessfulTrigger =>
        LET ids == IdsAscending
            n == Cardinality(DOMAIN PROPOSALS)
            r == calculate_clr([i \in 1..n |-> RawGrant(PROPOSALS[ids[i]])],
                               Some(config.budget.amount))
        IN  /\ Len(response.msgs) = n + 1
            /\ \A i \in 1..n :
                  /\ response.msgs[i].to_address = PROPOSALS[ids[i]].fund_address
                  /\ response.msgs[i].amount =
                        r.distr_funds[i].grant + PROPOSALS[ids[i]].collected_funds
            /\ response.msgs[n + 1] = BankSend(config.leftover_addr, r.leftover)

C10_Witness ==
    /\ SuccessfulTrigger
    /\ Len(response.msgs) = 3
    /\ response.msgs[1].amount # response.msgs[2].amount
    /\ response.msgs[3].amount = 0

\* the keys of the votes stored for a proposal
VotesFor(id) == {k \in DOMAIN VOTES : k[1] = id}

\* the integer square root, by its defining inequality
Root(n) == CHOOSE r \in 0..n : r * r <= n /\ (r + 1) * (r + 1) > n

RECURSIVE SumRoots(_)
SumRoots(keys) ==
    IF keys = {} THEN 0
    ELSE LET k == CHOOSE x \in keys : TRUE
         IN  Root(VOTES[k].fund.amount) + SumRoots(keys \ {k})

\* the raw score of a stored proposal: the sum of the roots of its votes, squared
Score(id) == SumRoots(VotesFor(id)) * SumRoots(VotesFor(id))

RECURSIVE TotalScore(_)
TotalScore(ids) ==
    IF ids = {} THEN 0
    ELSE LET id == CHOOSE x \in ids : TRUE
         IN  Score(id) + TotalScore(ids \ {id})

\* the matched amount of a stored proposal under the configured budget
Matched(id) ==
    LET total == TotalScore(DOMAIN PROPOSALS)
    IN  IF total = 0 THEN 0 ELSE (config.budget.amount * Score(id)) \div total

\* C11: in a successful TriggerDistribution the amount sent for each proposal
\* is its matched amount plus its collected_funds, which is at least the sum
\* of the funds of the votes stored for it.
C11_SendIsMatchedPlusCollected ==
    SuccessfulTrigger =>
        \A i \in 1..Cardinality(DOMAIN PROPOSALS) :
            LET id == IdsAscending[i]
            IN  /\ response.msgs[i].amount = Matched(id) + PROPOSALS[id].collected_funds
                /\ response.msgs[i].amount >= SumVoteFunds(VotesFor(id))

C11_Witness ==
    /\ SuccessfulTrigger
    /\ \E id \in DOMAIN PROPOSALS :
          /\ Cardinality(VotesFor(id)) = 2
          /\ Matched(id) > 0
          /\ PROPOSALS[id].collected_funds = 10
          /\ response.msgs[id].amount = Matched(id) + 10

\* the engine has been applied to clr_in
ClrApplied == clr_out # NoResult

RECURSIVE ClrSumRoots(_)
ClrSumRoots(funds) ==
    IF funds = <<>> THEN 0 ELSE Root(Head(funds)) + ClrSumRoots(Tail(funds))

\* the raw score of a contribution list
ClrScore(funds) == ClrSumRoots(funds) * ClrSumRoots(funds)

RECURSIVE ClrTotal(_)
ClrTotal(grants) ==
    IF grants = <<>> THEN 0
    ELSE ClrScore(Head(grants).funds) + ClrTotal(Tail(grants))

\* C12: with budget Some(b) and total score 0 the computation succeeds, every
\* matched amount is 0 and the leftover is b; the response then carries each
\* proposal's collected funds only and sends the whole budget to leftover_addr.
C12_ZeroTotalAllLeftover ==
    (ClrApplied /\ ClrTotal(clr_in.grants) = 0) =>
        LET n == Len(clr_in.grants)
        IN  /\ clr_out.ok
            /\ Len(clr_out.distr_funds) = n
            /\ \A i \in 1..n : clr_out.distr_funds[i].grant = 0
            /\ clr_out.leftover = clr_in.budget
            /\ response.result = "Ok"
            /\ Len(response.msgs) = n + 1
            /\ \A i \in 1..n :
                  response.msgs[i].amount = clr_in.grants[i].collected_vote_funds
            /\ response.msgs[n + 1] = BankSend(config.leftover_addr, clr_in.budget)

C12_Witness ==
    /\ ClrApplied
    /\ ClrTotal(clr_in.grants) = 0
    /\ Len(clr_in.grants) = 2
    /\ clr_in.grants[1].funds = <<>>
    /\ clr_in.grants[2].funds = <<>>
    /\ clr_in.budget = 7
    /\ response.msgs = <<BankSend("fund_address", 0), BankSend("fund_address", 0),
                         BankSend(config.leftover_addr, 7)>>

\* C13: a proposal with no stored vote goes into the computation with an empty
\* contribution list, has raw score 0 and matched amount 0 under every budget,
\* whatever the votes on the other proposals; a successful TriggerDistribution
\* sends it its collected funds and nothing else.
C13_NoVotesNoMatch ==
    LET ids == IdsAscending
        n == Cardinality(DOMAIN PROPOSALS)
        grants == collect_grants
    IN  \A i \in 1..n :
            VotesFor(ids[i]) = {} =>
                /\ grants[i].funds = <<>>
                /\ raw_score(grants[i].funds) = 0
                /\ \A b \in ClrBudgets :
                      LET r == calculate_clr(grants, Some(b))
                      IN  r.ok /\ r.distr_funds[i].grant = 0
                /\ SuccessfulTrigger =>
                      response.msgs[i].amount = PROPOSALS[ids[i]].collected_funds

C13_Witness ==
    /\ SuccessfulTrigger
    /\ Cardinality(DOMAIN PROPOSALS) = 2
    /\ VotesFor(1) = {}
    /\ Cardinality(VotesFor(2)) = 2
    /\ response.msgs[1].amount = 0
    /\ response.msgs[2].amount = 17

RECURSIVE SeqSum(_)
SeqSum(funds) == IF funds = <<>> THEN 0 ELSE Head(funds) + SeqSum(Tail(funds))

\* C14: of two grants with the same total contribution, the one that splits
\* the total into several contributions has a raw score at least that of the
\* one made of the single contribution of that total.
C14_SplitScoresAtLeastSingle ==
    ClrApplied =>
        LET funds == clr_in.grants[1].funds
            total == SeqSum(funds)
        IN  /\ clr_out.single = Root(total) * Root(total)
            /\ clr_out.split >= clr_out.single
            /\ Len(funds) = 1 => clr_out.split = clr_out.single

C14_Witness ==
    /\ ClrApplied
    /\ clr_in.grants[1].funds = <<5, 5>>
    /\ clr_out.single = 9
    /\ clr_out.split = 16

\* the round of the test is complete: its four proposals and its nine votes
\* are stored
RefRoundStored ==
    /\ config.budget.amount = RefBudget
    /\ DOMAIN PROPOSALS = 1..Len(RefFundAddrs)
    /\ \A k \in 1..Len(RefVotes) :
          /\ <<RefVotes[k].proposal_id, RefVotes[k].sender>> \in DOMAIN VOTES
          /\ VOTES[<<RefVotes[k].proposal_id, RefVotes[k].sender>>].fund.amount
                = RefVotes[k].amount

\* C15: with votes [1200, 44999, 33], [30000, 58999], [230000, 100],
\* [100000, 5] on four proposals and budget 550000, TriggerDistribution sends
\* 106444, 253601, 458637 and 196653 to fund_address1..4, which are the matched
\* amounts 60212, 164602, 228537, 96648 plus the collected funds, and then a
\* leftover of 1.
C15_ReferenceScenario ==
    (SuccessfulTrigger /\ RefRoundStored) =>
        /\ response.msgs =
              <<BankSend("fund_address1", 106444), BankSend("fund_address2", 253601),
                BankSend("fund_address3", 458637), BankSend("fund_address4", 196653),
                BankSend(config.leftover_addr, 1)>>
        /\ <<PROPOSALS[1].collected_funds, PROPOSALS[2].collected_funds,
             PROPOSALS[3].collected_funds, PROPOSALS[4].collected_funds>>
              = <<106444 - 60212, 253601 - 164602, 458637 - 228537, 196653 - 96648>>

C15_Witness ==
    /\ SuccessfulTrigger
    /\ RefRoundStored
    /\ Len(response.msgs) = 5
    /\ response.msgs[5] = BankSend("addr", 1)

\* s * s is representable
FitsSquare(s) == s = 0 \/ s <= UintMax \div s

RECURSIVE RootsOf(_)
RootsOf(funds) ==
    IF funds = <<>> THEN 0 ELSE isqrt(Head(funds)) + RootsOf(Tail(funds))

\* the scores of the grants, each representable, sum to more than cap
RECURSIVE ScoresExceed(_, _)
ScoresExceed(grants, cap) ==
    IF grants = <<>> THEN FALSE
    ELSE LET s == RootsOf(Head(grants).funds)
         IN  s * s > cap \/ ScoresExceed(Tail(grants), cap - s * s)

\* a square or the sum of the scores of the matching computation leaves the range
EngineOverflows(grants) ==
    \/ \E i \in 1..Len(grants) : ~FitsSquare(RootsOf(grants[i].funds))
    \/ ScoresExceed(grants, UintMax)

\* C16: when an intermediate sum or square of the matching computation exceeds
\* the integer range, the computation fails and the response is an error that
\* carries no bank message: no send per proposal, no leftover send, no wrapped
\* or truncated amount.
C16_OverflowEmitsNothing ==
    (ClrApplied /\ EngineOverflows(clr_in.grants)) =>
        /\ ~clr_out.ok
        /\ response.op = "TriggerDistribution"
        /\ response.result = "Overflow"
        /\ response.msgs = <<>>

\* the scores are representable and their sum is not
C16_Witness ==
    /\ ClrApplied
    /\ Len(clr_in.grants) = 2
    /\ \A i \in 1..2 : FitsSquare(RootsOf(clr_in.grants[i].funds))
    /\ ScoresExceed(clr_in.grants, UintMax)
    /\ response.result = "Overflow"
    /\ response.msgs = <<>>

\* C17: with budget Some(b) and a total score above 0, each matched amount is
\* floor(b * raw_score_i / total_score), the total being the sum of all raw
\* scores; a grant with a strictly larger raw score is never matched less than
\* a grant with a smaller one.
C17_MatchedIsFloorOfShare ==
    (clr_out.ok /\ ClrTotal(clr_in.grants) > 0) =>
        LET n == Len(clr_in.grants)
            total == ClrTotal(clr_in.grants)
            raw(i) == ClrScore(clr_in.grants[i].funds)
        IN  /\ Len(clr_out.distr_funds) = n
            /\ \A i \in 1..n :
                  clr_out.distr_funds[i].grant = (clr_in.budget * raw(i)) \div total
            /\ \A i, j \in 1..n :
                  raw(i) > raw(j) =>
                      clr_out.distr_funds[i].grant >= clr_out.distr_funds[j].grant

C17_Witness ==
    /\ clr_out.ok
    /\ clr_in.budget = 10
    /\ Len(clr_in.grants) = 2
    /\ clr_in.grants[1].funds = <<5, 5>>
    /\ clr_in.grants[2].funds = <<5>>
    /\ clr_out.distr_funds[1].grant = 8
    /\ clr_out.distr_funds[2].grant = 2
    /\ clr_out.leftover = 0

\* C18: in every reachable state each proposal's collected_funds is the sum of
\* the funds of the votes stored for it, so the collected total handed to the
\* engine equals the sum of the contribution list handed with it; also after
\* rejected votes.
C18_CollectedEqualsVotes ==
    /\ \A id \in DOMAIN PROPOSALS :
          PROPOSALS[id].collected_funds = SumVoteFunds(VotesFor(id))
    /\ \A i \in 1..Len(collect_grants) :
          collect_grants[i].collected_vote_funds = sum_seq(collect_grants[i].funds)

\* C19 as stated: whenever the voting period is not expired at the current
\* block, a TriggerDistribution is rejected with VotingPeriodNotExpired and
\* emits no transfers.
C19_AlwaysVotingPeriodNotExpired ==
    [][\A sender \in Senders :
          (~is_expired(config.voting_period, block)
              /\ execute_trigger_distribution(sender))
              => /\ response'.result = "VotingPeriodNotExpired"
                 /\ response'.msgs = <<>>]_vars

\* a vote is accepted only at a block where the voting period is not expired,
\* a distribution only at a block where it is
AcceptedApart ==
    /\ (response.op = "VoteProposal" /\ response.result = "Ok")
          => ~is_expired(config.voting_period, block)
    /\ SuccessfulTrigger => is_expired(config.voting_period, block)

\* C19: whenever the voting period is not expired at the current block, a
\* TriggerDistribution is rejected and emits no transfers, with
\* VotingPeriodNotExpired when the admin sends it and with Unauthorized when
\* another sender does; no block accepts both a VoteProposal and a
\* TriggerDistribution.
C19_NoTriggerBeforeExpiration ==
    [][/\ \A sender \in Senders :
             (~is_expired(config.voting_period, block)
                 /\ execute_trigger_distribution(sender))
                 => /\ response'.result =
                          IF sender = config.admin THEN "VotingPeriodNotExpired"
                          ELSE "Unauthorized"
                    /\ response'.msgs = <<>>
                    /\ distributed' = distributed
       /\ AcceptedApart']_vars

C19_Witness ==
    /\ response.op = "TriggerDistribution"
    /\ response.sender = config.admin
    /\ response.result = "VotingPeriodNotExpired"
    /\ response.msgs = <<>>
    /\ ~is_expired(config.voting_period, block)
    /\ Cardinality(DOMAIN VOTES) = 2

\* C20: a TriggerDistribution from a sender other than config.admin fails with
\* Unauthorized and emits no transfers, in every state and at every block,
\* also after the voting period has expired; a distribution that succeeds was
\* sent by the admin.
C20_OnlyAdminTriggers ==
    [][/\ \A sender \in Senders :
             (sender # config.admin /\ execute_trigger_distribution(sender))
                 => /\ response'.result = "Unauthorized"
                    /\ response'.msgs = <<>>
                    /\ UNCHANGED <<PROPOSALS, VOTES, seq, distributed>>
       /\ SuccessfulTrigger' => response'.sender = config.admin]_vars

C20_Witness ==
    /\ response.op = "TriggerDistribution"
    /\ response.sender = "alice"
    /\ response.result = "Unauthorized"
    /\ is_expired(config.voting_period, block)
    /\ Cardinality(DOMAIN VOTES) = 2

====
